---------------------------- MODULE Spec2Model ----------------------------
(***************************************************************************)
(* State-machine model of src/libs/network/esp8266/network_esp8266.c: the  *)
(* ESP8266 socket table that adapts espconn's callbacks to the socket      *)
(* library's integer-handle calls.                                         *)
(*                                                                         *)
(* One machine state is the record m: the socket table, the id counter,    *)
(* the espconn objects on the heap, the saved hostname, the value the      *)
(* running function returns in .ret, and .fault, which names the failed    *)
(* assertion or the invalid memory access that stopped the program.  Every *)
(* C function is an operator from a machine state to a machine state,      *)
(* composed in the order of the C statements; a faulted machine is left    *)
(* as it was when it stopped.                                              *)
(*                                                                         *)
(* Pointers: a struct socketData * is the slot's position 1..MAX_SOCKETS   *)
(* (C index + 1), a struct espconn * is the object's number 1..MaxConns,   *)
(* and NULL is 0.                                                          *)
(***************************************************************************)
EXTENDS Integers, Sequences, FiniteSets, TLC

\* Size of the socket table.  The source sets 10 (network_esp8266.c:38);
\* the model explores a smaller table.
MAX_SOCKETS == 2

\* The espconn objects ever allocated, by the module or by the SDK.
MaxConns == 3

\* Socket ids are handed out while g_nextSocketId is below this.
MaxId == 3

\* The longest receive buffer the transport fills, and the longest chunk
\* one receive callback delivers.
MaxRx == 1

\* Bytes are 1..MaxByte.
MaxByte == 1

\* TCP ports are 1..MaxPort.
MaxPort == 1

\* sizeof(struct socketData *) on the ESP8266 (ILP32).
SizeofPtr == 4

\* uint16_t rxBufLen wraps at 2^16.
UINT16 == 65536

NULL == 0

Slots == 1..MAX_SOCKETS
Conns == 1..MaxConns
Bytes == 1..MaxByte
Ports == 1..MaxPort

\* The return codes espconn's primitives give: 0, or an error.
ESPCONN_OK == 0
ESPCONN_ERRS == {-8}
ESPCONN_RCS == {ESPCONN_OK} \cup ESPCONN_ERRS

\* enum SOCKET_STATE
SOCKET_STATES == {"UNUSED", "UNACCEPTED", "HOST_RESOLVING", "CONNECTING", "IDLE",
    "TRANSMITTING", "DISCONNECTING", "CLOSED", "ERROR"}

\* enum SOCKET_CREATION_TYPE
SOCKET_CREATION_TYPES == {"NONE", "SERVER", "OUTBOUND", "INBOUND"}

\* A pointer to a byte buffer: NULL, or the buffer's bytes.
NullBuf == [ptr |-> FALSE, data |-> <<>>]
Buf(d) == [ptr |-> TRUE, data |-> d]

\* char *errorMsg == NULL
NoMsg == ""

NoFault == "none"

\* struct socketData, all bytes zero: what static storage starts as.
ZeroSocket ==
    [socketId |-> 0, state |-> "UNUSED", creationType |-> "NONE", pEspconn |-> NULL,
     currentTx |-> NullBuf, rxBuf |-> NullBuf, rxBufLen |-> 0,
     errorMsg |-> NoMsg, errorCode |-> 0]

\* The offset one past each field of struct socketData (ILP32, 4-byte int,
\* enum and pointer; rxBufLen is padded to 4).
FieldEnd ==
    [socketId |-> 4, state |-> 8, creationType |-> 12, pEspconn |-> 16,
     currentTx |-> 20, rxBuf |-> 24, rxBufLen |-> 28, errorMsg |-> 32,
     errorCode |-> 36]

\* os_memset(p, 0, n) on a struct socketData: the fields that lie within
\* the first n bytes become zero, the others keep their value.
MemsetZero(s, n) ==
    [f \in DOMAIN s |-> IF FieldEnd[f] <= n THEN ZeroSocket[f] ELSE s[f]]

\* An espconn object that does not exist yet.
\*   alloc    none | live | freed
\*   owner    module (os_zalloc in createSocket) | sdk (handed to connectCB_inbound)
\*   reverse  the back-pointer to the slot
\*   cbs      the callbacks registered on it
\*   link     what the transport is doing with it:
\*            none | resolving | connecting | connected | listening | closing | dead
\*   sending  espconn_send was accepted and its sent callback is due
NoConn ==
    [alloc |-> "none", owner |-> "module", reverse |-> NULL, local_port |-> 0,
     remote_port |-> 0, remote_ip |-> "zero", cbs |-> {}, link |-> "none",
     sending |-> FALSE]

VARIABLES
    socketArray,      \* the socket table
    g_nextSocketId,   \* the next socket id
    savedHostname,    \* the name gethostbyname saved (NULL: none)
    conns,            \* the espconn objects
    release,          \* the build: RELEASE defined (assert compiles to nothing) or not
    fault,            \* the failed assertion or invalid access that stopped the program
    handles,          \* the socket ids the socket library holds
    assigned,         \* per slot: the id it was allocated under, -1 when free or released
    everAssigned,     \* the ids allocateNewSocket has assigned so far
    closeCalled,      \* the slots closeSocket was called on since their allocation
    maxReturned,      \* the largest id createSocket or accept returned, -1 when none
    pendingName,      \* gethostbyname returned and its createSocket is due
    delivered,        \* RxSpec: the bytes the receive callback stored, in order
    received          \* RxSpec: the bytes recv returned, in order

vars == <<socketArray, g_nextSocketId, savedHostname, conns, release, fault,
          handles, assigned, everAssigned, closeCalled, maxReturned, pendingName,
          delivered, received>>

\* The machine state the C functions act on.
M ==
    [socketArray |-> socketArray, g_nextSocketId |-> g_nextSocketId,
     savedHostname |-> savedHostname, conns |-> conns, release |-> release,
     fault |-> fault, assigned |-> assigned, everAssigned |-> everAssigned,
     ret |-> 0, out |-> <<>>, nSend |-> 0]

Ok(m) == m.fault = NoFault

Fault(m, what) == IF Ok(m) THEN [m EXCEPT !.fault = what] ELSE m

\* assert(cond): nothing in a release build; otherwise a failure stops the
\* program.
Check(m, cond, what) ==
    IF ~Ok(m) \/ m.release \/ cond THEN m ELSE Fault(m, what)

Ret(m, v) == IF Ok(m) THEN [m EXCEPT !.ret = v] ELSE m


-----------------------------------------------------------------------------
(* Memory accesses *)

\* Reading or writing through a struct socketData *: NULL stops the program.
SockPtr(m, p) == IF p = NULL THEN Fault(m, "NULL socketData dereferenced") ELSE m

\* Reading or writing through a struct espconn *: NULL, and an object that
\* was freed, stop the program.
ConnPtr(m, c) ==
    IF c = NULL THEN Fault(m, "NULL espconn dereferenced")
    ELSE IF m.conns[c].alloc # "live" THEN Fault(m, "freed espconn used")
    ELSE m

-----------------------------------------------------------------------------
(* The espconn primitives the module calls.  rc is the code the SDK returns. *)

espconn_regist(m, c, cb) ==
    IF ~Ok(m) THEN m ELSE [m EXCEPT !.conns[c].cbs = @ \cup {cb}]

\* espconn_gethostbyname: the resolution is under way; dnsFoundCallback is due.
espconn_gethostbyname(m, c) ==
    IF ~Ok(m) THEN m ELSE [m EXCEPT !.conns[c].link = "resolving"]

\* espconn_connect: on 0 the connection attempt is under way.
espconn_connect(m, c, rc) ==
    IF ~Ok(m) THEN m
    ELSE IF rc = ESPCONN_OK THEN Ret([m EXCEPT !.conns[c].link = "connecting"], rc)
    ELSE Ret([m EXCEPT !.conns[c].link = "none"], rc)

\* espconn_accept: on 0 the object listens on its local port.
espconn_accept(m, c, rc) ==
    IF ~Ok(m) THEN m
    ELSE IF rc = ESPCONN_OK THEN Ret([m EXCEPT !.conns[c].link = "listening"], rc)
    ELSE Ret([m EXCEPT !.conns[c].link = "none"], rc)

\* espconn_send: on 0 the data is on its way and the sent callback is due.
\* .nSend counts the calls the running function made.
espconn_send(m, c, rc) ==
    LET m1 == ConnPtr(m, c) IN
    IF ~Ok(m1) THEN m1
    ELSE LET m2 == [m1 EXCEPT !.nSend = @ + 1] IN
         IF rc = ESPCONN_OK THEN Ret([m2 EXCEPT !.conns[c].sending = TRUE], rc)
         ELSE Ret(m2, rc)

\* espconn_disconnect: on 0 the connection is closing and the disconnect
\* callback is due; on an error nothing changes.
espconn_disconnect(m, c, rc) ==
    LET m1 == ConnPtr(m, c) IN
    IF ~Ok(m1) THEN m1
    ELSE IF rc = ESPCONN_OK THEN Ret([m1 EXCEPT !.conns[c].link = "closing"], rc)
    ELSE Ret(m1, rc)

\* espconn_delete: on 0 the listener is gone; no callback follows.
espconn_delete(m, c, rc) ==
    LET m1 == ConnPtr(m, c) IN
    IF ~Ok(m1) THEN m1
    ELSE IF rc = ESPCONN_OK THEN Ret([m1 EXCEPT !.conns[c].link = "dead"], rc)
    ELSE Ret(m1, rc)

\* The first espconn number not yet used: where os_zalloc, or the SDK, puts
\* the next object.
FreshConn(m) ==
    IF \E c \in Conns : m.conns[c].alloc = "none"
    THEN CHOOSE c \in Conns : m.conns[c].alloc = "none"
                              /\ \A d \in Conns : d < c => m.conns[d].alloc # "none"
    ELSE NULL

\* os_free of an espconn and its esp_tcp.
FreeConn(m, c) ==
    LET m1 == ConnPtr(m, c) IN
    IF ~Ok(m1) THEN m1 ELSE [m1 EXCEPT !.conns[c].alloc = "freed"]

-----------------------------------------------------------------------------
(* The socket table *)

\* getNextGlobalSocketId without the increment: every call gives the same id.
getNextGlobalSocketId_NoIncrement(m) ==
    IF ~Ok(m) THEN m
    ELSE [m EXCEPT !.ret = m.g_nextSocketId]

getNextGlobalSocketId(m) ==
    IF ~Ok(m) THEN m
    ELSE [m EXCEPT !.ret = m.g_nextSocketId, !.g_nextSocketId = @ + 1]

\* The first position whose state is UNUSED, NULL when there is none.
FirstUnused(sa) ==
    IF \E i \in Slots : sa[i].state = "UNUSED"
    THEN CHOOSE i \in Slots : sa[i].state = "UNUSED"
                              /\ \A j \in Slots : j < i => sa[j].state # "UNUSED"
    ELSE NULL

\* allocateNewSocket taking the next id before it looks for a slot.
allocateNewSocket_IdFirst(m) ==
    IF ~Ok(m) THEN m
    ELSE LET i  == FirstUnused(m.socketArray)
             m1 == getNextGlobalSocketId(m)
         IN
         IF i = NULL THEN Ret(m1, NULL)
         ELSE [m1 EXCEPT !.socketArray[i].socketId = m1.ret,
                         !.assigned[i] = m1.ret,
                         !.everAssigned = @ \cup {m1.ret},
                         !.ret = i]

\* Returns the slot in .ret.
allocateNewSocket(m) ==
    IF ~Ok(m) THEN m
    ELSE LET i == FirstUnused(m.socketArray) IN
         IF i = NULL THEN Ret(m, NULL)
         ELSE LET m1 == getNextGlobalSocketId(m) IN
              [m1 EXCEPT !.socketArray[i].socketId = m1.ret,
                         !.assigned[i] = m1.ret,
                         !.everAssigned = @ \cup {m1.ret},
                         !.ret = i]

\* getSocketData scanning from the last position down.
getSocketData_LastMatch(sa, socketId) ==
    IF \E i \in Slots : sa[i].socketId = socketId
    THEN CHOOSE i \in Slots : sa[i].socketId = socketId
                              /\ \A j \in Slots : j > i => sa[j].socketId # socketId
    ELSE NULL

\* The first position whose socketId is the one asked for, NULL when there
\* is none.
getSocketData(sa, socketId) ==
    IF \E i \in Slots : sa[i].socketId = socketId
    THEN CHOOSE i \in Slots : sa[i].socketId = socketId
                              /\ \A j \in Slots : j < i => sa[j].socketId # socketId
    ELSE NULL

\* resetSocketByData zeroing socketId and state, and nothing after them.
resetSocketByData_ThroughState(m, p) ==
    LET m1 == SockPtr(Check(m, p # NULL, "resetSocketByData: pSocketData != NULL"), p) IN
    IF ~Ok(m1) THEN m1
    ELSE [m1 EXCEPT !.socketArray[p] = MemsetZero(@, FieldEnd.state),
                    !.assigned[p] = -1]

resetSocketByData(m, p) ==
    LET m1 == SockPtr(Check(m, p # NULL, "resetSocketByData: pSocketData != NULL"), p) IN
    IF ~Ok(m1) THEN m1
    ELSE [m1 EXCEPT !.socketArray[p] = MemsetZero(@, SizeofPtr),
                    !.assigned[p] = -1]

releaseSocket(m, socketId) ==
    IF ~Ok(m) THEN m
    ELSE LET p  == getSocketData(m.socketArray, socketId)
             m1 == SockPtr(m, p)
         IN
         IF ~Ok(m1) THEN m1
         ELSE LET s  == m1.socketArray[p]
                  m2 == Check(m1, s.state # "UNUSED", "releaseSocket: state != UNUSED")
                  m3 == Check(m2, s.pEspconn = NULL, "releaseSocket: pEspconn == NULL")
                  m4 == Check(m3, ~s.rxBuf.ptr, "releaseSocket: rxBuf == NULL")
                  m5 == IF Ok(m4) /\ s.currentTx.ptr
                        THEN [m4 EXCEPT !.socketArray[p].currentTx = NullBuf]
                        ELSE m4
              IN resetSocketByData(m5, p)

releaseEspconn(m, p) ==
    LET m1 == SockPtr(m, p) IN
    IF ~Ok(m1) THEN m1
    ELSE LET s == m1.socketArray[p] IN
         IF s.pEspconn = NULL THEN m1
         ELSE IF s.creationType = "INBOUND" THEN m1
         ELSE LET m2 == FreeConn(m1, s.pEspconn) IN
              IF ~Ok(m2) THEN m2
              ELSE [m2 EXCEPT !.socketArray[p].pEspconn = NULL]

setSocketInError(m, socketId, msg, code) ==
    IF ~Ok(m) THEN m
    ELSE LET p  == getSocketData(m.socketArray, socketId)
             m1 == SockPtr(m, p)
         IN
         IF ~Ok(m1) THEN m1
         ELSE [m1 EXCEPT !.socketArray[p].state = "ERROR",
                         !.socketArray[p].errorMsg = msg,
                         !.socketArray[p].errorCode = code]

doClose(m, socketId, rc) ==
    IF ~Ok(m) THEN m
    ELSE LET p == getSocketData(m.socketArray, socketId) IN
         IF p = NULL THEN m
         ELSE LET s == m.socketArray[p] IN
              IF s.state \in {"CLOSED", "DISCONNECTING", "ERROR"} THEN m
              ELSE IF s.state = "HOST_RESOLVING" THEN m
              ELSE LET m1 == IF s.creationType = "SERVER"
                             THEN LET d == espconn_delete(m, s.pEspconn, rc) IN
                                  IF rc # 0
                                  THEN setSocketInError(d, socketId, "espconn_delete", rc)
                                  ELSE d
                             ELSE LET d == espconn_disconnect(m, s.pEspconn, rc) IN
                                  IF rc # 0
                                  THEN setSocketInError(d, socketId, "espconn_disconnect", rc)
                                  ELSE d
                   IN
                   IF ~Ok(m1) THEN m1
                   ELSE [m1 EXCEPT !.socketArray[p].state = "DISCONNECTING"]


-----------------------------------------------------------------------------
(* The espconn callbacks.  c is the struct espconn * the SDK passes. *)

\* rc is what espconn_disconnect returns when the table is full.
esp8266_callback_connectCB_inbound(m, c, rc) ==
    LET m0 == ConnPtr(Check(m, c # NULL, "connectCB_inbound: pEspconn != NULL"), c)
        m1 == allocateNewSocket(m0)
    IN
    IF ~Ok(m1) THEN m1
    ELSE IF m1.ret = NULL THEN espconn_disconnect(m1, c, rc)
    ELSE LET p  == m1.ret
             m2 == espconn_regist(espconn_regist(espconn_regist(espconn_regist(
                       m1, c, "discon"), c, "recon"), c, "sent"), c, "recv")
         IN
         [m2 EXCEPT !.socketArray[p].pEspconn = c,
                    !.conns[c].reverse = p,
                    !.socketArray[p].creationType = "INBOUND",
                    !.socketArray[p].state = "UNACCEPTED"]

esp8266_callback_connectCB_outbound(m, c) ==
    LET m0 == ConnPtr(Check(m, c # NULL, "connectCB_outbound: pEspconn != NULL"), c) IN
    IF ~Ok(m0) THEN m0
    ELSE LET p == m0.conns[c].reverse IN
         IF p = NULL THEN m0
         ELSE LET m1 == Check(m0, m0.socketArray[p].state = "CONNECTING",
                              "connectCB_outbound: state == CONNECTING")
              IN
              IF ~Ok(m1) THEN m1
              ELSE [m1 EXCEPT !.socketArray[p].state = "IDLE"]

esp8266_callback_disconnectCB(m, c) ==
    LET m0 == ConnPtr(m, c) IN
    IF ~Ok(m0) THEN m0
    ELSE LET p == m0.conns[c].reverse IN
         IF p = NULL THEN m0
         ELSE LET m1 == Check(m0, m0.socketArray[p].state # "UNUSED",
                              "disconnectCB: state != UNUSED")
                  m2 == releaseEspconn(m1, p)
              IN
              IF ~Ok(m2) THEN m2
              ELSE IF m2.socketArray[p].state = "DISCONNECTING"
              THEN releaseSocket(m2, m2.socketArray[p].socketId)
              ELSE [m2 EXCEPT !.socketArray[p].currentTx = NullBuf,
                              !.socketArray[p].state = "CLOSED"]

esp8266_callback_reconnectCB(m, c, err) ==
    LET m0 == ConnPtr(m, c) IN
    IF ~Ok(m0) THEN m0
    ELSE LET p == m0.conns[c].reverse IN
         IF p = NULL THEN m0
         ELSE LET disconnecting == m0.socketArray[p].state = "DISCONNECTING"
                  m1 == esp8266_callback_disconnectCB(m0, c)
              IN
              IF ~Ok(m1) THEN m1
              ELSE IF ~disconnecting
              THEN setSocketInError(m1, m1.socketArray[p].socketId, "espconn error", err)
              ELSE m1

esp8266_callback_sentCB(m, c) ==
    LET m0 == ConnPtr(m, c) IN
    IF ~Ok(m0) THEN m0
    ELSE LET p == m0.conns[c].reverse IN
         IF p = NULL THEN m0
         ELSE LET m1 == Check(m0, m0.socketArray[p].state \in {"TRANSMITTING", "DISCONNECTING"},
                              "sentCB: state == TRANSMITTING || state == DISCONNECTING")
              IN
              IF ~Ok(m1) THEN m1
              ELSE [m1 EXCEPT !.socketArray[p].currentTx = NullBuf,
                              !.socketArray[p].state =
                                  IF @ = "TRANSMITTING" THEN "IDLE" ELSE @]

\* pData holds len bytes; allocOk is whether os_zalloc or os_realloc finds
\* the memory; junk[k] is what byte k of memory os_realloc did not write
\* holds.
esp8266_callback_recvCB(m, c, pData, allocOk, junk) ==
    LET m0 == ConnPtr(m, c) IN
    IF ~Ok(m0) THEN m0
    ELSE LET p == m0.conns[c].reverse IN
         IF p = NULL THEN m0
         ELSE LET s   == m0.socketArray[p]
                  len == Len(pData)
                  m1  == Check(m0, s.state # "UNUSED", "recvCB: state != UNUSED")
              IN
              IF ~Ok(m1) THEN m1
              ELSE IF s.rxBufLen = 0
              THEN IF ~allocOk
                   THEN [m1 EXCEPT !.socketArray[p].rxBuf = NullBuf]
                   ELSE [m1 EXCEPT !.socketArray[p].rxBuf = Buf(pData),
                                   !.socketArray[p].rxBufLen = len % UINT16]
              ELSE IF ~allocOk
                   THEN [m1 EXCEPT !.socketArray[p].rxBuf = NullBuf]
                   ELSE LET old == IF s.rxBuf.ptr THEN s.rxBuf.data ELSE <<>>
                            \* os_realloc keeps the old bytes and leaves the rest as found
                            kept == [k \in 1..s.rxBufLen |->
                                        IF k <= Len(old) THEN old[k] ELSE junk[k]]
                        IN
                        [m1 EXCEPT !.socketArray[p].rxBuf = Buf(kept \o pData),
                                   !.socketArray[p].rxBufLen = (s.rxBufLen + len) % UINT16]

-----------------------------------------------------------------------------
(* The functions netSetCallbacks_esp8266_board hands to the socket library *)

net_ESP8266_BOARD_accept(m, serverSckt) ==
    IF ~Ok(m) THEN m
    ELSE LET p  == getSocketData(m.socketArray, serverSckt)
             m1 == SockPtr(m, p)
         IN
         IF ~Ok(m1) THEN m1
         ELSE LET s  == m1.socketArray[p]
                  m2 == Check(m1, s.state # "UNUSED", "accept: state != UNUSED")
                  m3 == Check(m2, s.creationType = "SERVER", "accept: creationType == SERVER")
                  m4 == ConnPtr(m3, s.pEspconn)
              IN
              IF ~Ok(m4) THEN m4
              ELSE LET serverPort == m4.conns[s.pEspconn].local_port
                       cand == {i \in Slots :
                                   /\ m4.socketArray[i].state = "UNACCEPTED"
                                   /\ m4.socketArray[i].pEspconn # NULL
                                   /\ m4.conns[m4.socketArray[i].pEspconn].local_port
                                          = serverPort}
                   IN
                   IF cand = {} THEN Ret(m4, -1)
                   ELSE LET i == CHOOSE i \in cand : \A j \in cand : i <= j IN
                        Ret(m4, m4.socketArray[i].socketId)

\* The bytes copied into buf are returned in .out.
net_ESP8266_BOARD_recv(m, sckt, len) ==
    IF ~Ok(m) THEN m
    ELSE LET p  == getSocketData(m.socketArray, sckt)
             m1 == SockPtr(m, p)
         IN
         IF ~Ok(m1) THEN m1
         ELSE LET s  == m1.socketArray[p]
                  m2 == Check(m1, s.state # "UNUSED", "recv: state != UNUSED")
              IN
              IF ~Ok(m2) THEN m2
              ELSE IF s.rxBufLen = 0
              THEN Ret(m2, IF s.state \in {"CLOSED", "ERROR"} THEN -1 ELSE 0)
              ELSE IF ~s.rxBuf.ptr
              THEN Fault(m2, "recv: os_memcpy from NULL rxBuf")
              ELSE IF s.rxBufLen <= len
              THEN [m2 EXCEPT !.out = SubSeq(s.rxBuf.data, 1, s.rxBufLen),
                              !.ret = s.rxBufLen,
                              !.socketArray[p].rxBufLen = 0,
                              !.socketArray[p].rxBuf = NullBuf]
              ELSE LET newLen == (s.rxBufLen - len) % UINT16 IN
                   [m2 EXCEPT !.out = SubSeq(s.rxBuf.data, 1, len),
                              !.ret = len,
                              !.socketArray[p].rxBuf =
                                  Buf(SubSeq(s.rxBuf.data, len + 1, len + newLen)),
                              !.socketArray[p].rxBufLen = newLen]

\* send taking a TRANSMITTING slot for an IDLE one.
net_ESP8266_BOARD_send_NoBackpressure(m, sckt, buf, mallocOk, rc) ==
    IF ~Ok(m) THEN m
    ELSE LET p  == getSocketData(m.socketArray, sckt)
             m1 == SockPtr(m, p)
         IN
         IF ~Ok(m1) THEN m1
         ELSE LET s == m1.socketArray[p] IN
              IF s.state \in {"ERROR", "CLOSED"} THEN Ret(m1, -1)
              ELSE IF s.state \notin {"IDLE", "TRANSMITTING"} THEN Ret(m1, 0)
              ELSE IF ~mallocOk THEN Fault(m1, "send: memcpy to NULL currentTx")
              ELSE LET m4 == [m1 EXCEPT !.socketArray[p].currentTx = Buf(buf)]
                       m5 == espconn_send(m4, s.pEspconn, rc)
                   IN
                   IF ~Ok(m5) THEN m5
                   ELSE IF rc < 0
                   THEN LET m6 == setSocketInError(m5, sckt, "espconn_send error", rc) IN
                        IF ~Ok(m6) THEN m6
                        ELSE Ret([m6 EXCEPT !.socketArray[p].currentTx = NullBuf], -1)
                   ELSE Ret([m5 EXCEPT !.socketArray[p].state = "TRANSMITTING"],
                            Len(buf))

\* buf holds len bytes; mallocOk is whether os_malloc finds the memory; rc
\* is what espconn_send returns.
net_ESP8266_BOARD_send(m, sckt, buf, mallocOk, rc) ==
    IF ~Ok(m) THEN m
    ELSE LET p  == getSocketData(m.socketArray, sckt)
             m1 == SockPtr(m, p)
         IN
         IF ~Ok(m1) THEN m1
         ELSE LET s  == m1.socketArray[p]
                  m2 == Check(m1, s.state # "UNUSED", "send: state != UNUSED")
              IN
              IF ~Ok(m2) THEN m2
              ELSE IF s.state \in {"ERROR", "CLOSED"} THEN Ret(m2, -1)
              ELSE IF s.state # "IDLE" THEN Ret(m2, 0)
              ELSE LET m3 == Check(m2, ~s.currentTx.ptr, "send: currentTx == NULL") IN
                   IF ~Ok(m3) THEN m3
                   ELSE IF ~mallocOk THEN Fault(m3, "send: memcpy to NULL currentTx")
                   ELSE LET m4 == [m3 EXCEPT !.socketArray[p].currentTx = Buf(buf)]
                            m5 == espconn_send(m4, s.pEspconn, rc)
                        IN
                        IF ~Ok(m5) THEN m5
                        ELSE IF rc < 0
                        THEN LET m6 == setSocketInError(m5, sckt, "espconn_send error", rc) IN
                             IF ~Ok(m6) THEN m6
                             ELSE Ret([m6 EXCEPT !.socketArray[p].currentTx = NullBuf], -1)
                        ELSE Ret([m5 EXCEPT !.socketArray[p].state = "TRANSMITTING"],
                                 Len(buf))

\* *outIp is returned in .ret.
net_ESP8266_BOARD_gethostbyname(m, hostname) ==
    LET m1 == Check(m, hostname # NULL, "gethostbyname: hostname != NULL") IN
    IF ~Ok(m1) THEN m1
    ELSE Ret([m1 EXCEPT !.savedHostname = hostname], -1)

\* rc is what espconn_connect or espconn_accept returns.
connectSocket(m, p, rc) ==
    LET m0 == SockPtr(m, p) IN
    IF ~Ok(m0) THEN m0
    ELSE LET s  == m0.socketArray[p]
             c  == s.pEspconn
             m1 == ConnPtr(m0, c)
         IN
         IF ~Ok(m1) THEN m1
         ELSE LET isServer  == m1.conns[c].remote_ip = "zero"
                  newSocket == s.socketId
                  m2 == Check(m1, ~s.rxBuf.ptr, "connectSocket: rxBuf == NULL")
                  m3 == Check(m2, s.rxBufLen = 0, "connectSocket: rxBufLen == 0")
                  m4 == Check(m3, ~s.currentTx.ptr, "connectSocket: currentTx == NULL")
              IN
              IF ~Ok(m4) THEN m4
              ELSE IF ~isServer
              THEN LET m5 == [m4 EXCEPT !.socketArray[p].state = "CONNECTING",
                                        !.socketArray[p].creationType = "OUTBOUND"]
                       m6 == espconn_regist(espconn_regist(espconn_regist(espconn_regist(
                                 espconn_regist(m5, c, "connect_outbound"), c, "discon"),
                                 c, "recon"), c, "sent"), c, "recv")
                       m7 == espconn_connect(m6, c, rc)
                   IN
                   Ret(IF rc # 0 THEN setSocketInError(m7, newSocket, "connect error", rc)
                       ELSE m7,
                       newSocket)
              ELSE LET m5 == [m4 EXCEPT !.socketArray[p].state = "IDLE",
                                        !.socketArray[p].creationType = "SERVER",
                                        !.conns[c].local_port = m4.conns[c].remote_port,
                                        !.conns[c].remote_port = 0]
                       m6 == espconn_regist(m5, c, "connect_inbound")
                       m7 == espconn_accept(m6, c, rc)
                   IN
                   Ret(IF rc # 0 THEN setSocketInError(m7, newSocket, "listen error", rc)
                       ELSE m7,
                       newSocket)

\* found is whether ipAddr is not NULL; rc is what espconn_connect returns.
dnsFoundCallback(m, c, found, rc) ==
    LET m0 == ConnPtr(Check(m, c # NULL, "dnsFoundCallback: arg != NULL"), c) IN
    IF ~Ok(m0) THEN m0
    ELSE LET p == m0.conns[c].reverse IN
         IF found
         THEN LET m1 == [m0 EXCEPT !.conns[c].remote_ip = "addr"] IN
              IF p # NULL THEN connectSocket(m1, p, rc) ELSE m1
         ELSE LET m1 == releaseEspconn(m0, p) IN
              IF ~Ok(m1) THEN m1
              ELSE IF p # NULL
              THEN setSocketInError(m1, m1.socketArray[p].socketId, "hostname not found", 1)
              ELSE m1

\* ipAddress is "zero" (0: a server), "unresolved" ((uint32_t)-1) or "addr";
\* zalloc says which os_zalloc fails: "ok" (none), "espconn" or "tcp"; rc is
\* what espconn_connect or espconn_accept returns.
net_ESP8266_BOARD_createSocket(m, ipAddress, port, zalloc, rc) ==
    LET m1 == allocateNewSocket(m) IN
    IF ~Ok(m1) THEN m1
    ELSE IF m1.ret = NULL THEN Ret(m1, -1)
    ELSE LET p == m1.ret
             c == IF zalloc = "espconn" THEN NULL ELSE FreshConn(m1)
         IN
         IF c = NULL
         THEN Ret(releaseSocket([m1 EXCEPT !.socketArray[p].pEspconn = NULL],
                                m1.socketArray[p].socketId), -1)
         ELSE LET m2 == [m1 EXCEPT !.socketArray[p].pEspconn = c,
                                   !.conns[c] = [NoConn EXCEPT !.alloc = "live"]]
                  m3 == Check(m2, zalloc # "tcp", "createSocket: proto.tcp != NULL")
                  m4 == IF zalloc = "tcp"
                        THEN Fault(m3, "createSocket: NULL proto.tcp dereferenced")
                        ELSE m3
              IN
              IF ~Ok(m4) THEN m4
              ELSE LET m5 == [m4 EXCEPT !.conns[c].remote_port = port,
                                        !.conns[c].reverse = p]
                   IN
                   IF ipAddress = "unresolved"
                   THEN LET m6 == espconn_gethostbyname(m5, c) IN
                        Ret([m6 EXCEPT !.socketArray[p].state = "HOST_RESOLVING"],
                            m6.socketArray[p].socketId)
                   ELSE connectSocket([m5 EXCEPT !.conns[c].remote_ip = ipAddress], p, rc)

\* rc is what espconn_disconnect or espconn_delete returns.
net_ESP8266_BOARD_closeSocket(m, socketId, rc) ==
    IF ~Ok(m) THEN m
    ELSE LET p  == getSocketData(m.socketArray, socketId)
             m1 == SockPtr(Check(m, p # NULL, "closeSocket: pSocketData != NULL"), p)
         IN
         IF ~Ok(m1) THEN m1
         ELSE LET s  == m1.socketArray[p]
                  m2 == Check(m1, s.state # "UNUSED", "closeSocket: state != UNUSED")
                  m3 == Check(m2, s.state # "DISCONNECTING",
                              "closeSocket: state != DISCONNECTING")
              IN
              IF ~Ok(m3) THEN m3
              ELSE IF s.state \in {"CLOSED", "ERROR"}
              THEN releaseSocket(m3, s.socketId)
              ELSE doClose(m3, socketId, rc)


-----------------------------------------------------------------------------
(* The state machine *)

\* The names the socket library resolves (char *hostname, never NULL).
Hostnames == {1}

\* What the socket library passes as ipAddress.
IpAddresses == {"zero", "unresolved", "addr"}

\* The data one send or one receive callback carries.
Chunks == UNION {[1..n -> Bytes] : n \in 1..MaxRx}

Init ==
    /\ socketArray = [i \in Slots |-> ZeroSocket]
    /\ g_nextSocketId = 0
    /\ savedHostname = NULL
    /\ conns = [c \in Conns |-> NoConn]
    /\ release \in BOOLEAN
    /\ fault = NoFault
    /\ handles = {}
    /\ assigned = [i \in Slots |-> -1]
    /\ everAssigned = {}
    /\ closeCalled = {}
    /\ maxReturned = -1
    /\ pendingName = FALSE
    /\ delivered = <<>>
    /\ received = <<>>

\* The program runs until an assertion fails or an access is invalid.
Running == fault = NoFault

\* The machine state m becomes the next state.
Commit(m) ==
    /\ socketArray' = m.socketArray
    /\ g_nextSocketId' = m.g_nextSocketId
    /\ savedHostname' = m.savedHostname
    /\ conns' = m.conns
    /\ release' = m.release
    /\ fault' = m.fault
    /\ assigned' = m.assigned
    /\ everAssigned' = m.everAssigned

\* The SDK frees the espconn objects it owns once their connection is over.
SdkReap(m, c) ==
    IF Ok(m) /\ m.conns[c].owner = "sdk" /\ m.conns[c].alloc = "live"
    THEN [m EXCEPT !.conns[c].alloc = "freed", !.conns[c].link = "dead"]
    ELSE m

\* The slots allocateNewSocket is about to take leave closeCalled.
Reused == IF FirstUnused(socketArray) = NULL THEN {} ELSE {FirstUnused(socketArray)}

(* The socket library's calls.  It passes the ids it holds, and calls *)
(* createSocket with (uint32_t)-1 right after gethostbyname and only then. *)

Max(a, b) == IF a >= b THEN a ELSE b

\* What the socket library keeps of a call that returned a socket id.
Returned(m) ==
    /\ handles' = IF Ok(m) /\ m.ret >= 0 THEN handles \cup {m.ret} ELSE handles
    /\ maxReturned' = IF Ok(m) /\ m.ret >= 0 THEN Max(maxReturned, m.ret) ELSE maxReturned

GetHostByName(h) ==
    /\ Running
    /\ ~pendingName
    /\ g_nextSocketId < MaxId
    /\ Commit(net_ESP8266_BOARD_gethostbyname(M, h))
    /\ pendingName' = TRUE
    /\ UNCHANGED <<handles, closeCalled, maxReturned, delivered, received>>

CreateSocket(ip, port, zalloc, rc) ==
    /\ Running
    /\ g_nextSocketId < MaxId
    /\ pendingName <=> ip = "unresolved"
    /\ LET m == net_ESP8266_BOARD_createSocket(M, ip, port, zalloc, rc) IN
       /\ Commit(m)
       /\ Returned(m)
       /\ closeCalled' = closeCalled \ Reused
       /\ pendingName' = FALSE
       /\ UNCHANGED <<delivered, received>>

Accept(id) ==
    /\ Running
    /\ ~pendingName
    /\ id \in handles
    /\ socketArray[getSocketData(socketArray, id)].creationType = "SERVER"
    /\ LET m == net_ESP8266_BOARD_accept(M, id) IN
       /\ Commit(m)
       /\ Returned(m)
       /\ UNCHANGED <<closeCalled, pendingName, delivered, received>>

Send(id, buf, mallocOk, rc) ==
    /\ Running
    /\ ~pendingName
    /\ id \in handles
    /\ Commit(net_ESP8266_BOARD_send(M, id, buf, mallocOk, rc))
    /\ UNCHANGED <<handles, closeCalled, maxReturned, pendingName, delivered, received>>

Recv(id, len) ==
    /\ Running
    /\ ~pendingName
    /\ id \in handles
    /\ Commit(net_ESP8266_BOARD_recv(M, id, len))
    /\ UNCHANGED <<handles, closeCalled, maxReturned, pendingName, delivered, received>>

CloseSocket(id, rc) ==
    /\ Running
    /\ ~pendingName
    /\ id \in handles
    /\ Commit(net_ESP8266_BOARD_closeSocket(M, id, rc))
    /\ handles' = handles \ {id}
    /\ closeCalled' = closeCalled \cup {getSocketData(socketArray, id)}
    /\ UNCHANGED <<maxReturned, pendingName, delivered, received>>

(* The SDK's callbacks.  Each is delivered on a live espconn it was *)
(* registered on, when the connection is in a state that produces it. *)

\* A client reached a listening espconn: the SDK hands a new espconn, with
\* the listener's local port, to the connect callback.
InboundConnect(sc, rc) ==
    /\ Running
    /\ ~pendingName
    /\ g_nextSocketId < MaxId
    /\ conns[sc].alloc = "live"
    /\ conns[sc].link = "listening"
    /\ "connect_inbound" \in conns[sc].cbs
    /\ FreshConn(M) # NULL
    /\ LET c  == FreshConn(M)
           m0 == [M EXCEPT !.conns[c] = [NoConn EXCEPT !.alloc = "live",
                                                       !.owner = "sdk",
                                                       !.link = "connected",
                                                       !.local_port = conns[sc].local_port]]
           m1 == esp8266_callback_connectCB_inbound(m0, c, rc)
       IN
       /\ Commit(IF Ok(m1) /\ m1.conns[c].cbs = {} THEN SdkReap(m1, c) ELSE m1)
       /\ closeCalled' = closeCalled \ Reused
       /\ UNCHANGED <<handles, maxReturned, pendingName, delivered, received>>

ConnectCB(c) ==
    /\ Running
    /\ ~pendingName
    /\ conns[c].alloc = "live"
    /\ conns[c].link = "connecting"
    /\ "connect_outbound" \in conns[c].cbs
    /\ Commit(esp8266_callback_connectCB_outbound(
                  [M EXCEPT !.conns[c].link = "connected"], c))
    /\ UNCHANGED <<handles, closeCalled, maxReturned, pendingName, delivered, received>>

DisconnectCB(c) ==
    /\ Running
    /\ ~pendingName
    /\ conns[c].alloc = "live"
    /\ conns[c].link \in {"connected", "closing"}
    /\ "discon" \in conns[c].cbs
    /\ Commit(SdkReap(esp8266_callback_disconnectCB(
                  [M EXCEPT !.conns[c].link = "dead", !.conns[c].sending = FALSE], c), c))
    /\ UNCHANGED <<handles, closeCalled, maxReturned, pendingName, delivered, received>>

ReconnectCB(c, err) ==
    /\ Running
    /\ ~pendingName
    /\ conns[c].alloc = "live"
    /\ conns[c].link \in {"connecting", "connected", "closing"}
    /\ "recon" \in conns[c].cbs
    /\ Commit(SdkReap(esp8266_callback_reconnectCB(
                  [M EXCEPT !.conns[c].link = "dead", !.conns[c].sending = FALSE], c, err), c))
    /\ UNCHANGED <<handles, closeCalled, maxReturned, pendingName, delivered, received>>

SentCB(c) ==
    /\ Running
    /\ ~pendingName
    /\ conns[c].alloc = "live"
    /\ conns[c].link \in {"connected", "closing"}
    /\ conns[c].sending
    /\ "sent" \in conns[c].cbs
    /\ Commit(esp8266_callback_sentCB([M EXCEPT !.conns[c].sending = FALSE], c))
    /\ UNCHANGED <<handles, closeCalled, maxReturned, pendingName, delivered, received>>

RecvCB(c, pData, allocOk, junk) ==
    /\ Running
    /\ ~pendingName
    /\ conns[c].alloc = "live"
    /\ conns[c].link = "connected"
    /\ "recv" \in conns[c].cbs
    /\ conns[c].reverse # NULL
           => socketArray[conns[c].reverse].rxBufLen + Len(pData) <= MaxRx
    /\ Commit(esp8266_callback_recvCB(M, c, pData, allocOk, junk))
    /\ UNCHANGED <<handles, closeCalled, maxReturned, pendingName, delivered, received>>

DnsFound(c, found, rc) ==
    /\ Running
    /\ ~pendingName
    /\ conns[c].alloc = "live"
    /\ conns[c].link = "resolving"
    /\ Commit(dnsFoundCallback([M EXCEPT !.conns[c].link = "none"], c, found, rc))
    /\ UNCHANGED <<handles, closeCalled, maxReturned, pendingName, delivered, received>>

Next ==
    \/ \E h \in Hostnames : GetHostByName(h)
    \/ \E ip \in IpAddresses, port \in Ports, zalloc \in {"ok", "espconn", "tcp"},
          rc \in ESPCONN_RCS : CreateSocket(ip, port, zalloc, rc)
    \/ \E id \in handles : Accept(id)
    \/ \E id \in handles, buf \in Chunks, mallocOk \in BOOLEAN, rc \in ESPCONN_RCS :
          Send(id, buf, mallocOk, rc)
    \/ \E id \in handles, len \in 1..MaxRx : Recv(id, len)
    \/ \E id \in handles, rc \in ESPCONN_RCS : CloseSocket(id, rc)
    \/ \E sc \in Conns, rc \in ESPCONN_RCS : InboundConnect(sc, rc)
    \/ \E c \in Conns : ConnectCB(c)
    \/ \E c \in Conns : DisconnectCB(c)
    \/ \E c \in Conns, err \in ESPCONN_ERRS : ReconnectCB(c, err)
    \/ \E c \in Conns : SentCB(c)
    \/ \E c \in Conns, pData \in Chunks, allocOk \in BOOLEAN, junk \in [1..MaxRx -> Bytes] :
          RecvCB(c, pData, allocOk, junk)
    \/ \E c \in Conns, found \in BOOLEAN, rc \in ESPCONN_RCS : DnsFound(c, found, rc)

Spec == Init /\ [][Next]_vars


\* What the transport still owes on an espconn: the callback of a pending
\* resolution, of a pending connect, or of a disconnect it was asked for.
Owes(c) ==
    /\ conns[c].alloc = "live"
    /\ \/ conns[c].link = "resolving"
       \/ conns[c].link = "connecting" /\ "connect_outbound" \in conns[c].cbs
       \/ conns[c].link = "closing" /\ "discon" \in conns[c].cbs

-----------------------------------------------------------------------------
(* The receive path of one connected socket, with longer streams: the     *)
(* program has made one outbound connection, and from there the transport *)
(* delivers data, closes or resets it while the socket library reads.     *)

\* The bytes one stream carries in all.
MaxStream == 3

\* The bytes one receive callback delivers at most.
MaxChunk == 2

\* The byte values of a stream are 1..MaxRxByte.
MaxRxByte == 2

RxBytes == 1..MaxRxByte
RxChunks == UNION {[1..n -> RxBytes] : n \in 1..MaxChunk}

\* The machine before any call, in the build r.
InitMachine(r) ==
    [socketArray |-> [i \in Slots |-> ZeroSocket], g_nextSocketId |-> 0,
     savedHostname |-> NULL, conns |-> [c \in Conns |-> NoConn], release |-> r,
     fault |-> NoFault, assigned |-> [i \in Slots |-> -1], everAssigned |-> {},
     ret |-> 0, out |-> <<>>, nSend |-> 0]

\* createSocket to an address on the first port, espconn_connect accepting.
RxCreated(r) ==
    net_ESP8266_BOARD_createSocket(InitMachine(r), "addr", 1, "ok", ESPCONN_OK)

\* ... and the connect callback on its espconn.
RxConnected(r) ==
    LET m == RxCreated(r)
        c == m.socketArray[1].pEspconn
    IN esp8266_callback_connectCB_outbound([m EXCEPT !.conns[c].link = "connected"], c)

RxInit ==
    \E r \in BOOLEAN :
        /\ socketArray = RxConnected(r).socketArray
        /\ g_nextSocketId = RxConnected(r).g_nextSocketId
        /\ savedHostname = RxConnected(r).savedHostname
        /\ conns = RxConnected(r).conns
        /\ release = r
        /\ fault = RxConnected(r).fault
        /\ assigned = RxConnected(r).assigned
        /\ everAssigned = RxConnected(r).everAssigned
        /\ handles = {RxCreated(r).ret}
        /\ maxReturned = RxCreated(r).ret
        /\ closeCalled = {}
        /\ pendingName = FALSE
        /\ delivered = <<>>
        /\ received = <<>>

\* The receive callback; the bytes it stored join the stream.
RxRecvCB(c, pData, allocOk, junk) ==
    /\ Running
    /\ conns[c].alloc = "live"
    /\ conns[c].link = "connected"
    /\ "recv" \in conns[c].cbs
    /\ Len(delivered) + Len(pData) <= MaxStream
    /\ Commit(esp8266_callback_recvCB(M, c, pData, allocOk, junk))
    /\ delivered' = IF allocOk THEN delivered \o pData ELSE delivered
    /\ UNCHANGED <<handles, closeCalled, maxReturned, pendingName, received>>

\* recv; the bytes it returned join what was read.
RxRecv(id, len) ==
    /\ Running
    /\ id \in handles
    /\ LET m == net_ESP8266_BOARD_recv(M, id, len) IN
       /\ Commit(m)
       /\ received' = IF Ok(m) /\ m.ret > 0 THEN received \o m.out ELSE received
    /\ UNCHANGED <<handles, closeCalled, maxReturned, pendingName, delivered>>

RxNext ==
    \/ \E c \in Conns, pData \in RxChunks, allocOk \in BOOLEAN,
          junk \in [1..MaxStream -> RxBytes] : RxRecvCB(c, pData, allocOk, junk)
    \/ \E id \in handles, len \in 1..MaxStream : RxRecv(id, len)
    \/ \E c \in Conns : DisconnectCB(c)
    \/ \E c \in Conns, err \in ESPCONN_ERRS : ReconnectCB(c, err)

RxSpec == RxInit /\ [][RxNext]_vars

-----------------------------------------------------------------------------
(* The receive path of the same connected socket when the socket library  *)
(* reads late: the transport delivers segments up to the largest length   *)
(* a receive callback can carry, and every allocation succeeds.           *)

\* The bytes the stream carries in all: one more than rxBufLen can count.
MaxBulk == 65536

\* The lengths of the segments: a quarter of, half of, and the most an
\* unsigned short holds.
BulkLens == {UINT16 \div 4, UINT16 \div 2, UINT16 - 1}

\* A segment of n bytes.
BulkChunk(n) == [k \in 1..n |-> 1]

\* The receive callback with a segment of n bytes.
BulkRecvCB(c, n) ==
    /\ Running
    /\ conns[c].alloc = "live"
    /\ conns[c].link = "connected"
    /\ "recv" \in conns[c].cbs
    /\ Len(delivered) + n <= MaxBulk
    /\ Commit(esp8266_callback_recvCB(M, c, BulkChunk(n), TRUE, BulkChunk(UINT16)))
    /\ delivered' = delivered \o BulkChunk(n)
    /\ UNCHANGED <<handles, closeCalled, maxReturned, pendingName, received>>

BulkNext ==
    \/ \E c \in Conns, n \in BulkLens : BulkRecvCB(c, n)
    \/ \E id \in handles, len \in BulkLens : RxRecv(id, len)
    \/ \E c \in Conns : DisconnectCB(c)
    \/ \E c \in Conns, err \in ESPCONN_ERRS : ReconnectCB(c, err)

BulkSpec == RxInit /\ [][BulkNext]_vars

-----------------------------------------------------------------------------
(* Properties *)

Slot(id) == getSocketData(socketArray, id)

NonTerminal == {"UNACCEPTED", "HOST_RESOLVING", "CONNECTING", "IDLE", "TRANSMITTING"}

HasConn(s) == s.pEspconn # NULL
HasTx(s) == s.currentTx.ptr
HasRx(s) == s.rxBuf.ptr
HasError(s) == s.errorMsg # NoMsg

\* C1: closesocket on a slot in UNACCEPTED, HOST_RESOLVING, CONNECTING, IDLE
\* or TRANSMITTING leaves that slot in DISCONNECTING.
C1_CloseMovesToDisconnecting ==
    [][\A id \in handles, rc \in ESPCONN_RCS :
          (CloseSocket(id, rc) /\ socketArray[Slot(id)].state \in NonTerminal
                               /\ fault' = NoFault)
              => socketArray'[Slot(id)].state = "DISCONNECTING"]_vars

\* C2: closesocket on a slot in CLOSED or ERROR leaves the slot UNUSED with
\* conn, tx, rx and error absent, and the id is no longer found.
C2_CloseReleasesTerminal ==
    [][\A id \in handles, rc \in ESPCONN_RCS :
          (CloseSocket(id, rc) /\ socketArray[Slot(id)].state \in {"CLOSED", "ERROR"}
                               /\ fault' = NoFault)
              => /\ socketArray'[Slot(id)].state = "UNUSED"
                 /\ ~HasConn(socketArray'[Slot(id)])
                 /\ ~HasTx(socketArray'[Slot(id)])
                 /\ ~HasRx(socketArray'[Slot(id)])
                 /\ ~HasError(socketArray'[Slot(id)])
                 /\ getSocketData(socketArray', id) = NULL]_vars

\* C3: every slot closesocket was called on returns to UNUSED once the
\* transport has delivered every callback it owed: in a running program no
\* such slot is left outside UNUSED with nothing owed by the transport.
C3_TeardownCompletes ==
    (Running /\ ~pendingName /\ \A c \in Conns : ~Owes(c))
        => \A i \in closeCalled : socketArray[i].state = "UNUSED"

\* A slot with nothing attached.
AllAbsent(s) == ~HasConn(s) /\ ~HasTx(s) /\ ~HasRx(s) /\ ~HasError(s)

C5_TerminalHasNoConn ==
    Running => \A i \in Slots :
        socketArray[i].state \in {"CLOSED", "ERROR"} => ~HasConn(socketArray[i])

\* C6: after every call and callback, a slot in IDLE, TRANSMITTING,
\* CONNECTING, HOST_RESOLVING, UNACCEPTED or DISCONNECTING has a conn.
C6_LiveHasConn ==
    Running => \A i \in Slots :
        socketArray[i].state \in (NonTerminal \cup {"DISCONNECTING"})
            => HasConn(socketArray[i])

\* C7: after every call and callback, a slot has a transmit buffer if and
\* only if its state is TRANSMITTING.
C7_TxIffTransmitting ==
    Running => \A i \in Slots :
        HasTx(socketArray[i]) <=> socketArray[i].state = "TRANSMITTING"

\* C8: a slot carries an error (message, code) exactly when its state is
\* ERROR.
C8_ErrorIffErrorState ==
    Running => \A i \in Slots :
        HasError(socketArray[i]) <=> socketArray[i].state = "ERROR"

C10_OneSlotPerId ==
    Running => \A i \in Slots :
        assigned[i] # -1 =>
            /\ getSocketData(socketArray, assigned[i]) = i
            /\ socketArray[i].state # "UNUSED"
            /\ \A j \in Slots : j # i => assigned[j] # assigned[i]

\* An id is in use at the second position while the first position holds a
\* released slot.
C10_Witness ==
    /\ Running
    /\ \E i, j \in Slots : /\ j < i
                           /\ assigned[i] # -1
                           /\ assigned[j] = -1
                           /\ socketArray[j].state # "UNUSED"

\* The arguments createSocket takes and what its allocations and espconn
\* calls answer.
CreateArgs == IpAddresses \X Ports \X {"ok", "espconn", "tcp"} \X ESPCONN_RCS

\* C11: with no UNUSED slot, createSocket returns -1, allocates no espconn,
\* takes no socket id and leaves every slot as it was.
C11_FullPoolCreate ==
    (Running /\ FirstUnused(socketArray) = NULL) =>
        \A a \in CreateArgs :
            LET m == net_ESP8266_BOARD_createSocket(M, a[1], a[2], a[3], a[4]) IN
            /\ Ok(m)
            /\ m.ret = -1
            /\ m.conns = conns
            /\ m.g_nextSocketId = g_nextSocketId
            /\ m.socketArray = socketArray

\* Every slot is taken and createSocket may still be called.
C11_Witness ==
    /\ Running
    /\ FirstUnused(socketArray) = NULL
    /\ g_nextSocketId < MaxId
    /\ ENABLED (\E a \in CreateArgs : CreateSocket(a[1], a[2], a[3], a[4]))

\* C12: createSocket returns the new socket id when it succeeds, and -1 when
\* an allocation fails or espconn_connect / espconn_accept reports an error,
\* and then the slot it took is UNUSED again.
C12_CreateReturns ==
    Running => \A a \in CreateArgs :
        (pendingName <=> a[1] = "unresolved") =>
            LET m      == net_ESP8266_BOARD_createSocket(M, a[1], a[2], a[3], a[4])
                p      == FirstUnused(socketArray)
                failed == a[3] # "ok" \/ (a[1] # "unresolved" /\ a[4] # ESPCONN_OK)
            IN
            (Ok(m) /\ p # NULL) =>
                IF failed
                THEN m.ret = -1 /\ m.socketArray[p].state = "UNUSED"
                ELSE m.ret = m.socketArray[p].socketId /\ m.ret = g_nextSocketId

\* The arguments send takes and what os_malloc and espconn_send answer.
SendArgs == Chunks \X BOOLEAN \X ESPCONN_RCS

\* C13: one send in flight per socket: while a socket's espconn_send was
\* accepted and its sent callback has not come, send does not call
\* espconn_send for it; and send on a TRANSMITTING slot returns 0, calls
\* espconn_send no second time and leaves the first buffer in currentTx.
C13_OneSendInFlight ==
    Running => \A id \in handles, a \in SendArgs :
        LET p == Slot(id)
            m == net_ESP8266_BOARD_send(M, id, a[1], a[2], a[3])
        IN
        p # NULL =>
            LET s == socketArray[p] IN
            /\ (s.pEspconn # NULL /\ conns[s.pEspconn].sending) => m.nSend = 0
            /\ s.state = "TRANSMITTING" =>
                   /\ Ok(m)
                   /\ m.ret = 0
                   /\ m.nSend = 0
                   /\ m.socketArray[p].currentTx = s.currentTx
                   /\ HasTx(s)

\* A send is in flight on a socket the socket library holds.
C13_Witness ==
    /\ Running
    /\ \E id \in handles :
           /\ Slot(id) # NULL
           /\ socketArray[Slot(id)].state = "TRANSMITTING"
           /\ socketArray[Slot(id)].creationType = "OUTBOUND"
           /\ conns[socketArray[Slot(id)].pEspconn].sending

\* The slots in use: allocated and not released.
InUse == {i \in Slots : assigned[i] # -1}

\* C14: what send returns is decided by the slot's state: -1 in ERROR and
\* CLOSED, nothing changing; len in IDLE when os_malloc and espconn_send
\* succeed, the slot becoming TRANSMITTING; 0 in CONNECTING, HOST_RESOLVING,
\* UNACCEPTED, TRANSMITTING and DISCONNECTING, nothing changing.
C14_SendByState ==
    Running => \A i \in InUse, a \in SendArgs :
        LET s == socketArray[i]
            m == net_ESP8266_BOARD_send(M, assigned[i], a[1], a[2], a[3])
        IN
        /\ s.state \in {"ERROR", "CLOSED"} =>
               /\ Ok(m) /\ m.ret = -1
               /\ m.socketArray = socketArray /\ m.conns = conns
        /\ (s.state = "IDLE" /\ a[2] /\ a[3] = ESPCONN_OK) =>
               /\ Ok(m) /\ m.ret = Len(a[1])
               /\ m.socketArray[i].state = "TRANSMITTING"
               /\ m.socketArray[i].currentTx = Buf(a[1])
        /\ s.state \in {"CONNECTING", "HOST_RESOLVING", "UNACCEPTED",
                        "TRANSMITTING", "DISCONNECTING"} =>
               /\ Ok(m) /\ m.ret = 0
               /\ m.socketArray = socketArray /\ m.conns = conns

\* One slot in use is IDLE and connected while the other is in ERROR.
C14_Witness ==
    /\ Running
    /\ \E i, j \in InUse :
           /\ socketArray[i].state = "IDLE"
           /\ socketArray[i].creationType = "OUTBOUND"
           /\ socketArray[j].state = "ERROR"

\* C15: when espconn_send reports an error for a send on an IDLE slot, send
\* returns -1 with currentTx cleared and the slot in ERROR, and the
\* closeSocket that follows leaves the slot UNUSED, no assertion failing.
C15_SendErrorThenClose ==
    Running => \A i \in InUse, buf \in Chunks, err \in ESPCONN_ERRS, rc \in ESPCONN_RCS :
        socketArray[i].state = "IDLE" =>
            LET m1 == net_ESP8266_BOARD_send(M, assigned[i], buf, TRUE, err)
                m2 == net_ESP8266_BOARD_closeSocket(m1, assigned[i], rc)
            IN
            /\ Ok(m1) /\ m1.ret = -1
            /\ ~HasTx(m1.socketArray[i])
            /\ m1.socketArray[i].state = "ERROR"
            /\ Ok(m2)
            /\ m2.socketArray[i].state = "UNUSED"

\* The bytes a slot's receive buffer holds.
RxData(s) == IF s.rxBuf.ptr THEN s.rxBuf.data ELSE <<>>

\* C16: the bytes recv has returned so far, followed by the bytes still in
\* the receive buffer, are the bytes the receive callbacks stored, in the
\* order of arrival: once the buffer is drained, recv has returned exactly
\* the stream.
C16_RecvReturnsTheStream ==
    Running => \A i \in InUse :
        /\ received \o RxData(socketArray[i]) = delivered
        /\ socketArray[i].rxBufLen = Len(RxData(socketArray[i]))

Min(a, b) == IF a <= b THEN a ELSE b

\* C17: recv on a slot in use whose receive buffer is empty returns -1 in
\* CLOSED and ERROR and 0 in every other state and leaves the slot table as
\* it was; when the buffer holds rx_len > 0 bytes, recv into len bytes
\* returns min(rx_len, len) and those are the first bytes of the buffer,
\* whatever the state.
C17_RecvByState ==
    Running => \A i \in InUse, len \in 1..MaxStream :
        LET s == socketArray[i]
            m == net_ESP8266_BOARD_recv(M, assigned[i], len)
        IN IF s.rxBufLen = 0
           THEN /\ Ok(m)
                /\ m.ret = IF s.state \in {"CLOSED", "ERROR"} THEN -1 ELSE 0
                /\ m.socketArray = socketArray
           ELSE /\ Ok(m)
                /\ m.ret = Min(s.rxBufLen, len)
                /\ m.out = SubSeq(RxData(s), 1, m.ret)

\* C18: when the receive callback arrives for a slot and the allocation of
\* the receive buffer (os_zalloc) or its growth (os_realloc) fails, the
\* incoming bytes are dropped (the buffered bytes are what they were) and
\* the slot is in ERROR afterwards.
C18_AllocFailureIsError ==
    Running => \A c \in Conns, pData \in RxChunks :
        (/\ conns[c].alloc = "live"
         /\ conns[c].link = "connected"
         /\ "recv" \in conns[c].cbs
         /\ conns[c].reverse # NULL) =>
            LET p == conns[c].reverse
                m == esp8266_callback_recvCB(M, c, pData, FALSE, [k \in 1..MaxStream |-> 1])
            IN /\ Ok(m)
               /\ m.socketArray[p].state = "ERROR"
               /\ RxData(m.socketArray[p]) = RxData(socketArray[p])
               /\ m.socketArray[p].rxBufLen = socketArray[p].rxBufLen

\* C19: accept on a server socket returns -1 or the id of a slot that was
\* UNACCEPTED and listens on the server's port, and that slot is IDLE when
\* accept returns; so the accept that follows at once, with no inbound
\* connection in between, does not return the same id again.
C19_AcceptOnce ==
    Running => \A i \in InUse :
        socketArray[i].creationType = "SERVER" =>
            LET m1 == net_ESP8266_BOARD_accept(M, assigned[i])
                m2 == net_ESP8266_BOARD_accept(m1, assigned[i])
            IN (Ok(m1) /\ m1.ret # -1) =>
                   /\ \E j \in Slots :
                          /\ socketArray[j].state = "UNACCEPTED"
                          /\ socketArray[j].socketId = m1.ret
                          /\ conns[socketArray[j].pEspconn].local_port
                                 = conns[socketArray[i].pEspconn].local_port
                          /\ m1.socketArray[j].state = "IDLE"
                   /\ Ok(m2)
                   /\ m2.ret # m1.ret

\* The machine when the SDK has made the espconn c of a connection that
\* arrived at the listener sc.
Arrived(sc, c) ==
    [M EXCEPT !.conns[c] = [NoConn EXCEPT !.alloc = "live",
                                          !.owner = "sdk",
                                          !.link = "connected",
                                          !.local_port = conns[sc].local_port]]

\* A listener the transport can deliver an inbound connection to.
Listening(sc) ==
    /\ conns[sc].alloc = "live"
    /\ conns[sc].link = "listening"
    /\ "connect_inbound" \in conns[sc].cbs
    /\ FreshConn(M) # NULL

\* C20: when an inbound connection arrives while no slot is UNUSED, the
\* callback calls espconn_disconnect on that connection (which is closing if
\* the call succeeded), registers nothing on it, and leaves the slot table,
\* the ids given out and the next socket id as they were.
C20_FullPoolInbound ==
    (Running /\ FirstUnused(socketArray) = NULL) =>
        \A sc \in Conns, rc \in ESPCONN_RCS :
            Listening(sc) =>
                LET c == FreshConn(M)
                    m == esp8266_callback_connectCB_inbound(Arrived(sc, c), c, rc)
                IN /\ Ok(m)
                   /\ m.ret = rc
                   /\ m.conns[c].link = IF rc = ESPCONN_OK THEN "closing" ELSE "connected"
                   /\ m.conns[c].cbs = {}
                   /\ m.conns[c].reverse = NULL
                   /\ m.socketArray = socketArray
                   /\ m.assigned = assigned
                   /\ m.g_nextSocketId = g_nextSocketId

C20_Witness ==
    /\ Running
    /\ FirstUnused(socketArray) = NULL
    /\ \E sc \in Conns : Listening(sc) /\ ENABLED (\E rc \in ESPCONN_RCS : InboundConnect(sc, rc))

\* The machine when the transport has dropped the connection of c and calls
\* the disconnect or the reset callback on it.
Dropped(c) == [M EXCEPT !.conns[c].link = "dead", !.conns[c].sending = FALSE]

\* The transport can call the reset callback on c, and c belongs to a slot
\* in use.
Resettable(c) ==
    /\ conns[c].alloc = "live"
    /\ conns[c].link \in {"connecting", "connected", "closing"}
    /\ "recon" \in conns[c].cbs
    /\ conns[c].reverse # NULL
    /\ assigned[conns[c].reverse] # -1

\* C21: the reset callback with code err on the espconn of a slot in use:
\* if the slot was not DISCONNECTING, it has no espconn afterwards and is in
\* ERROR with err as its error code; if it was DISCONNECTING, it is UNUSED
\* afterwards and carries no error.
C21_ResetCallback ==
    (Running /\ ~pendingName) => \A c \in Conns, err \in ESPCONN_ERRS :
        Resettable(c) =>
            LET p == conns[c].reverse
                m == esp8266_callback_reconnectCB(Dropped(c), c, err)
            IN IF socketArray[p].state # "DISCONNECTING"
               THEN /\ Ok(m)
                    /\ ~HasConn(m.socketArray[p])
                    /\ m.socketArray[p].state = "ERROR"
                    /\ m.socketArray[p].errorCode = err
               ELSE /\ Ok(m)
                    /\ m.socketArray[p].state = "UNUSED"
                    /\ ~HasError(m.socketArray[p])

\* C22: every espconn the module allocated is freed exactly once over its
\* socket's lifetime: while it is not freed, the slot of a socket in use
\* holds it (no leak); freeing it through its slot removes it from the slot,
\* so a second releaseEspconn frees nothing and touches no freed object (no
\* double free); and releaseEspconn on a slot of INBOUND origin frees nothing.
C22_OneFreePerEspconn ==
    Running =>
        /\ \A c \in Conns :
               (conns[c].owner = "module" /\ conns[c].alloc = "live")
                   => \E i \in InUse : socketArray[i].pEspconn = c
        /\ \A i \in InUse :
               LET m1 == releaseEspconn(M, i)
                   m2 == releaseEspconn(m1, i)
               IN /\ Ok(m1)
                  /\ Ok(m2)
                  /\ m2.conns = m1.conns
                  /\ socketArray[i].creationType = "INBOUND" => m1.conns = conns

\* The machines the callbacks the transport can deliver on the espconn c
\* leave behind, one per callback and input.
CallbackResults(c) ==
    LET l == conns[c].link
        cbs == conns[c].cbs
    IN
    (IF l = "connecting" /\ "connect_outbound" \in cbs
     THEN {esp8266_callback_connectCB_outbound([M EXCEPT !.conns[c].link = "connected"], c)}
     ELSE {})
    \cup (IF l \in {"connected", "closing"} /\ "discon" \in cbs
          THEN {esp8266_callback_disconnectCB(Dropped(c), c)}
          ELSE {})
    \cup (IF l \in {"connecting", "connected", "closing"} /\ "recon" \in cbs
          THEN {esp8266_callback_reconnectCB(Dropped(c), c, err) : err \in ESPCONN_ERRS}
          ELSE {})
    \cup (IF l \in {"connected", "closing"} /\ conns[c].sending /\ "sent" \in cbs
          THEN {esp8266_callback_sentCB([M EXCEPT !.conns[c].sending = FALSE], c)}
          ELSE {})
    \cup (IF l = "connected" /\ "recv" \in cbs
          THEN {esp8266_callback_recvCB(M, c, pData, allocOk, [k \in 1..MaxRx |-> 1]) :
                    pData \in Chunks, allocOk \in BOOLEAN}
          ELSE {})
    \cup (IF l = "resolving"
          THEN {dnsFoundCallback([M EXCEPT !.conns[c].link = "none"], c, found, rc) :
                    found \in BOOLEAN, rc \in ESPCONN_RCS}
          ELSE {})

\* The espconn c is live and belongs to no socket: its reverse pointer is
\* NULL or names a slot that is free (never allocated, or released).
Stray(c) ==
    /\ conns[c].alloc = "live"
    /\ \/ conns[c].reverse = NULL
       \/ socketArray[conns[c].reverse].state = "UNUSED"
       \/ assigned[conns[c].reverse] = -1

\* C23: a callback the transport delivers on an espconn whose reverse
\* pointer is NULL or names a free slot has no effect: no assertion fails,
\* the slot table is as before and no espconn is freed.
C23_StrayCallbackNoEffect ==
    (Running /\ ~pendingName) => \A c \in Conns :
        Stray(c) => \A m \in CallbackResults(c) :
            /\ Ok(m)
            /\ m.socketArray = socketArray
            /\ \A d \in Conns : m.conns[d].alloc = conns[d].alloc

\* The transport can call the disconnect callback on c, and c belongs to a
\* slot in use.
Disconnectable(c) ==
    /\ conns[c].alloc = "live"
    /\ conns[c].link \in {"connected", "closing"}
    /\ "discon" \in conns[c].cbs
    /\ conns[c].reverse # NULL
    /\ assigned[conns[c].reverse] # -1

\* C24: the disconnect callback on the espconn of a slot in use leaves the
\* slot without espconn, and: a DISCONNECTING slot is UNUSED afterwards; a
\* slot in CLOSED or ERROR keeps its state and its error; a slot in any other
\* state is CLOSED afterwards with no transmit buffer.
C24_DisconnectCallback ==
    (Running /\ ~pendingName) => \A c \in Conns :
        Disconnectable(c) =>
            LET p == conns[c].reverse
                s == socketArray[p]
                m == esp8266_callback_disconnectCB(Dropped(c), c)
            IN /\ Ok(m)
               /\ ~HasConn(m.socketArray[p])
               /\ CASE s.state = "DISCONNECTING" -> m.socketArray[p].state = "UNUSED"
                    [] s.state \in {"CLOSED", "ERROR"} ->
                           /\ m.socketArray[p].state = s.state
                           /\ m.socketArray[p].errorMsg = s.errorMsg
                           /\ m.socketArray[p].errorCode = s.errorCode
                    [] OTHER -> /\ m.socketArray[p].state = "CLOSED"
                                /\ ~HasTx(m.socketArray[p])

\* The transport can call the connect callback on c.
Connectable(c) ==
    /\ conns[c].alloc = "live"
    /\ conns[c].link = "connecting"
    /\ "connect_outbound" \in conns[c].cbs

\* C25: whenever the transport can deliver the outbound-connect callback on
\* an espconn with a slot, that slot is in CONNECTING, the callback's
\* assertion holds and the slot is IDLE afterwards; a slot closeSocket was
\* called on is not in IDLE after the callback.
C25_ConnectFindsConnecting ==
    (Running /\ ~pendingName) => \A c \in Conns :
        (Connectable(c) /\ conns[c].reverse # NULL) =>
            LET p == conns[c].reverse
                m == esp8266_callback_connectCB_outbound(
                         [M EXCEPT !.conns[c].link = "connected"], c)
            IN /\ socketArray[p].state = "CONNECTING"
               /\ Ok(m)
               /\ m.socketArray[p].state = "IDLE"
               /\ p \notin closeCalled

\* The transport can call the sent callback on c.
Sendable(c) ==
    /\ conns[c].alloc = "live"
    /\ conns[c].link \in {"connected", "closing"}
    /\ conns[c].sending
    /\ "sent" \in conns[c].cbs

\* C26: whenever the transport can deliver the sent callback on an espconn
\* with a slot, that slot is in TRANSMITTING or DISCONNECTING; the callback's
\* assertion holds, the slot has no transmit buffer afterwards, and a
\* TRANSMITTING slot is IDLE, a DISCONNECTING slot DISCONNECTING.
C26_SentFindsTransmitting ==
    (Running /\ ~pendingName) => \A c \in Conns :
        (Sendable(c) /\ conns[c].reverse # NULL) =>
            LET p == conns[c].reverse
                s == socketArray[p]
                m == esp8266_callback_sentCB([M EXCEPT !.conns[c].sending = FALSE], c)
            IN /\ s.state \in {"TRANSMITTING", "DISCONNECTING"}
               /\ Ok(m)
               /\ ~HasTx(m.socketArray[p])
               /\ m.socketArray[p].state =
                      IF s.state = "TRANSMITTING" THEN "IDLE" ELSE "DISCONNECTING"

\* The name resolution on c is under way: the transport owes its result.
Resolving(c) ==
    /\ conns[c].alloc = "live"
    /\ conns[c].link = "resolving"
    /\ conns[c].reverse # NULL

\* The machine after the DNS result for c.
DnsResult(c, found, rc) ==
    dnsFoundCallback([M EXCEPT !.conns[c].link = "none"], c, found, rc)

\* C27: gethostbyname gives -1 as the address; createSocket with that
\* address takes the first free slot, returns its new id and leaves it in
\* HOST_RESOLVING; a DNS result with an address moves a HOST_RESOLVING slot
\* to CONNECTING, one without an address frees its espconn and moves it to
\* ERROR; and a DNS result for a slot that is no longer HOST_RESOLVING
\* leaves the slot table as it was.
C27_NameResolution ==
    Running =>
        /\ \A h \in Hostnames : net_ESP8266_BOARD_gethostbyname(M, h).ret = -1
        /\ pendingName =>
               \A port \in Ports, rc \in ESPCONN_RCS :
                   LET p == FirstUnused(socketArray)
                       m == net_ESP8266_BOARD_createSocket(M, "unresolved", port, "ok", rc)
                   IN p # NULL =>
                          /\ Ok(m)
                          /\ m.ret = g_nextSocketId
                          /\ m.socketArray[p].socketId = m.ret
                          /\ m.socketArray[p].state = "HOST_RESOLVING"
        /\ ~pendingName =>
               \A c \in Conns :
                   Resolving(c) =>
                       LET p == conns[c].reverse
                           mFound == DnsResult(c, TRUE, ESPCONN_OK)
                       IN IF socketArray[p].state = "HOST_RESOLVING"
                          THEN /\ Ok(mFound)
                               /\ mFound.socketArray[p].state = "CONNECTING"
                               /\ \A rc \in ESPCONN_RCS :
                                      LET mNone == DnsResult(c, FALSE, rc) IN
                                      /\ Ok(mNone)
                                      /\ mNone.conns[c].alloc = "freed"
                                      /\ ~HasConn(mNone.socketArray[p])
                                      /\ mNone.socketArray[p].state = "ERROR"
                          ELSE \A found \in BOOLEAN, rc \in ESPCONN_RCS :
                                   DnsResult(c, found, rc).socketArray = socketArray

\* What releaseSocket asserts of the slot of socketId when it is called.
ReleaseAsserts(m, socketId) ==
    LET p == getSocketData(m.socketArray, socketId) IN
    /\ p # NULL
    /\ m.socketArray[p].state # "UNUSED"
    /\ m.socketArray[p].pEspconn = NULL
    /\ ~m.socketArray[p].rxBuf.ptr

\* C28: at every call of releaseSocket its three assertions hold: when
\* closeSocket releases a slot in CLOSED or ERROR, when the disconnect
\* callback releases a DISCONNECTING slot after releaseEspconn, and when
\* createSocket releases the slot it just allocated because os_zalloc
\* failed.
C28_ReleaseAssertionsHold ==
    (Running /\ ~pendingName) =>
        /\ \A id \in handles :
               (Slot(id) # NULL /\ socketArray[Slot(id)].state \in {"CLOSED", "ERROR"})
                   => ReleaseAsserts(M, id)
        /\ \A c \in Conns :
               (Disconnectable(c) /\ socketArray[conns[c].reverse].state = "DISCONNECTING")
                   => LET p == conns[c].reverse
                          m == releaseEspconn(Dropped(c), p)
                      IN ReleaseAsserts(m, m.socketArray[p].socketId)
        /\ FirstUnused(socketArray) # NULL =>
               LET m == allocateNewSocket(M)
                   p == m.ret
               IN ReleaseAsserts([m EXCEPT !.socketArray[p].pEspconn = NULL],
                                 m.socketArray[p].socketId)

CallResults(id) ==
    {net_ESP8266_BOARD_send(M, id, a[1], a[2], a[3]) : a \in SendArgs}
    \cup {net_ESP8266_BOARD_recv(M, id, len) : len \in 1..MaxRx}
    \cup {net_ESP8266_BOARD_closeSocket(M, id, rc) : rc \in ESPCONN_RCS}

\* The machine m differs from the current one in the slot p at most.
OnlySlot(m, p) == \A j \in Slots \ {p} : m.socketArray[j] = socketArray[j]

\* C30: send, recv and closeSocket on a socket id change no slot but the
\* one allocated under that id, and a callback on an espconn whose reverse
\* pointer names a slot changes no slot but that one.
C30_OnlyTheNamedSlot ==
    (Running /\ ~pendingName) =>
        /\ \A i \in InUse :
               assigned[i] \in handles =>
                   \A m \in CallResults(assigned[i]) : OnlySlot(m, i)
        /\ \A c \in Conns :
               (conns[c].alloc = "live" /\ conns[c].reverse # NULL) =>
                   \A m \in CallbackResults(c) : OnlySlot(m, conns[c].reverse)

\* C31: the receive length recorded in a slot is the number of bytes the
\* receive callbacks delivered minus the number recv returned (so appending
\* len bytes to rx_len buffered bytes gives rx_len + len, without
\* wrap-around of the 16-bit field), and the slot has a receive buffer
\* exactly when that length is not zero.
C31_RxLenCountsBytes ==
    Running => \A i \in InUse :
        /\ socketArray[i].rxBufLen = Len(delivered) - Len(received)
        /\ HasRx(socketArray[i]) <=> socketArray[i].rxBufLen # 0

=============================================================================
